---- MODULE Spec2Model ----
(***************************************************************************)
(* Value-based agents of the offline-reinforcement-learning repository:     *)
(* src/agents.py (Atari DQNAgent, DoubleDQNAgent) and src/lunar/agents.py   *)
(* (DQNAgent, OfflineDQNAgent, EnsembleOffDQNAgent, REMOffDQNAgent,         *)
(* QROffDQNAgent, OfflineLSPIAgent), and train() of                        *)
(* src/atari_archive/offline.py, which drives an agent, a data loader and   *)
(* an environment through calls.                                            *)
(*                                                                         *)
(* Abstractions.  A network is a black box: its parameters are a short      *)
(* vector of numbers, its forward outputs and the raw gradients of          *)
(* backward() are inputs drawn from small sets.  Real numbers are exact     *)
(* rationals <<n, d>> with d > 0; <<0, 0>> is the IEEE NaN that 0/0 gives.  *)
(* Parameters and gradients are integers, NaN being one reserved value.     *)
(* Adam's step is the unit-rate step p - g (zero for a zero gradient on a   *)
(* fresh optimizer, NaN for a NaN gradient, as Adam's is).                  *)
(* LSPI features are short integer vectors, a_mat is kept times the         *)
(* denominator of gamma so that it stays integral.                          *)
(***************************************************************************)
EXTENDS Integers, Sequences, FiniteSets, TLC

\* ------------------------------------------------------------------ bounds
MaxLearn == 3           \* learn() calls explored per run
MaxAct == 3             \* act() calls of an Atari agent explored per run
MaxBatch == 2           \* longest batch handed to learn()
NParams == 2            \* elements of a network's parameter vector
MaxRawGrad == 2         \* largest magnitude backward() leaves in .grad
RandMax == 1            \* torch.rand draws are k/(RandMax+1), k in 0..RandMax
LinearDecaySteps == 4   \* stands for the 100000 of lunar DQNAgent.eps_decay
TargetUpdateSteps == 2  \* stands for target_update_steps (2000, 2500, cfg)
SummaryCheckpoint == 2  \* stands for summary_checkpoint (100, cfg)
BatchSize == 2          \* stands for ReplayBuffer batch_size (32, 128)
BufferSize == 2         \* stands for ReplayBuffer buffer_size (50000)
NumQuantiles == 2       \* stands for QROffDQNAgent.num_quantiles (5)
MaxEpochs == 2          \* largest cfg['EPOCHS'] handed to train()
MaxEvalEpisodes == 2    \* largest cfg['EVAL_EPISODES']
MaxLoaderLen == 2       \* most batches the data loader yields per epoch
MaxEpisodeLen == 2      \* env.step calls after which an episode reports done

\* ------------------------------------------------------- program constants
ActionSpace == 2        \* action_space handed to the constructor
NumHeads == 2           \* cfg['NUM_HEADS']
EpsStart == 99          \* eps_start = 0.99, in hundredths
EpsEnd == 5             \* eps_end = 0.05, in hundredths
EpsDecayExp == 5000     \* Atari eps_decay
ExpScale == 10^5        \* fixed-point resolution of exp()

AtariKinds == {"AtariDQN", "AtariDoubleDQN"}
OnlineKinds == AtariKinds \cup {"LunarDQN"}
OfflineNeuralKinds == {"OfflineDQN", "EnsembleOffDQN", "REMOffDQN", "QROffDQN"}
NeuralKinds == OnlineKinds \cup OfflineNeuralKinds
Kinds == NeuralKinds \cup {"OfflineLSPI"}

Actions == 1..ActionSpace
ParamIdx == 1..NParams

\* ------------------------------------------------------------- arithmetic
NaN == 2^20
NaNRat == <<0, 0>>
Rat(n) == <<n, 1>>
IsNaNRat(x) == x[2] = 0
RatMul(x, y) == IF IsNaNRat(x) \/ IsNaNRat(y) THEN NaNRat ELSE <<x[1] * y[1], x[2] * y[2]>>
RatAdd(x, y) ==
    IF IsNaNRat(x) \/ IsNaNRat(y) THEN NaNRat
    ELSE <<x[1] * y[2] + y[1] * x[2], x[2] * y[2]>>
\* x / y as IEEE division gives it for x >= 0, y >= 0 finite: 0/0 is NaN
RatDivInt(n, m) == IF m = 0 THEN (IF n = 0 THEN NaNRat ELSE <<1, 0>>) ELSE <<n, m>>
RatEq(x, y) == ~IsNaNRat(x) /\ ~IsNaNRat(y) /\ x[1] * y[2] = y[1] * x[2]
RatLess(x, y) == ~IsNaNRat(x) /\ ~IsNaNRat(y) /\ x[1] * y[2] < y[1] * x[2]
RatGeqZero(x) == ~IsNaNRat(x) /\ x[1] >= 0

RECURSIVE RatSum(_)
RatSum(s) == IF s = <<>> THEN Rat(0) ELSE RatAdd(Head(s), RatSum(Tail(s)))

\* torch.max over a sequence: a NaN element makes the maximum NaN
RECURSIVE RatMax(_)
RatMax(s) ==
    IF Len(s) = 1 THEN s[1]
    ELSE LET m == RatMax(Tail(s)) IN
         IF IsNaNRat(s[1]) \/ IsNaNRat(m) THEN NaNRat
         ELSE IF RatLess(s[1], m) THEN m ELSE s[1]

\* torch.argmax: the first index holding the maximum (a NaN counts as the maximum)
ArgMax(s) ==
    CHOOSE i \in 1..Len(s) :
        /\ \A j \in 1..Len(s) : IsNaNRat(s[i]) \/ ~RatLess(s[i], s[j])
        /\ \A j \in 1..(i - 1) : ~IsNaNRat(s[j]) /\ (IsNaNRat(s[i]) \/ RatLess(s[j], s[i]))

RoundDiv(a, b) == (2 * a + b) \div (2 * b)

VARIABLES kind, policy, target, policy_grad, steps_done, batches_done, eps_threshold,
          summary_writer, replay_len, weights, learn_calls, learns_completed, last,
          train

vars == <<kind, policy, target, policy_grad, steps_done, batches_done, eps_threshold,
          summary_writer, replay_len, weights, learn_calls, learns_completed, last,
          train>>

\* --------------------------------------------------------------- networks
HasNaN(params) == \E i \in DOMAIN params : params[i] = NaN
ToRat(v) == IF v = NaN THEN NaNRat ELSE Rat(v)

\* Widths of a network's output per action: heads (Ensemble, REM), quantiles
\* (QR-DQN), one value otherwise.
Width(k) ==
    CASE k \in {"EnsembleOffDQN", "REMOffDQN"} -> NumHeads
      [] k = "QROffDQN" -> NumQuantiles
      [] OTHER -> 1

\* The value vectors a forward pass may give one action: all low, all high, mixed.
Profiles(w, lo, hi) ==
    { [h \in 1..w |-> lo], [h \in 1..w |-> hi],
      [h \in 1..w |-> IF h % 2 = 1 THEN hi ELSE lo] }

\* Outputs of a forward pass on one state: out[a][h].  A network holding a NaN
\* parameter yields NaN everywhere.
Forward(params, w, lo, hi) ==
    IF HasNaN(params) THEN { [a \in Actions |-> [h \in 1..w |-> NaN]] }
    ELSE [Actions -> Profiles(w, lo, hi)]

Mean(s) == RatMul(RatSum(s), <<1, Len(s)>>)

\* The parameter vectors a freshly built network may hold (random initialisation).
InitParams == { [i \in ParamIdx |-> 0], [i \in ParamIdx |-> 1] }

\* --------------------------------------------------------------- last call
NoCall ==
    [op |-> "init", err |-> "none", branch |-> "none", action |-> -1, eps |-> 0,
     steps |-> <<>>, raw |-> <<>>, consumed |-> <<>>, done |-> <<>>, reward |-> <<>>, y |-> <<>>,
     alpha |-> <<>>, synced |-> FALSE, emit |-> <<>>, tq |-> <<>>,
     phi_sa |-> <<>>, phi_next |-> <<>>, a_mat |-> <<>>]

\* ------------------------------------------------------------ construction
\* target.load_state_dict(...) of the constructor: what the fresh target holds,
\* given the fresh policy's and the fresh target's own random parameters.
\* Atari DQNAgent loads the target's own state dict; every other agent the policy's.
LoadStateDictAtInit(k, p0, t0) == IF k = "AtariDQN" THEN t0 ELSE p0

\* train() of offline.py not running: the agent is driven call by call.
NoTrain ==
    [pc |-> "idle", epochs |-> 0, eval_episodes |-> 0, batches |-> 0, e |-> 0,
     i_batch |-> 0, counter |-> 0, ep_len |-> 0, call |-> "none", saved |-> <<>>]

\* The agent as its constructor leaves it.
InitAgent ==
    /\ kind \in Kinds
    /\ \E p0 \in InitParams, t0 \in InitParams :
          IF kind \in NeuralKinds
          THEN /\ policy = p0
               /\ target = LoadStateDictAtInit(kind, p0, t0)
               /\ policy_grad = [i \in ParamIdx |-> 0]
               /\ weights = <<>>
          ELSE /\ policy = <<>>
               /\ target = <<>>
               /\ policy_grad = <<>>
               /\ weights = p0
    /\ steps_done = 0
    /\ batches_done = 0
    /\ eps_threshold = IF kind = "LunarDQN" THEN EpsStart ELSE 0
    /\ summary_writer = FALSE
    /\ replay_len = 0
    /\ learn_calls = 0
    /\ learns_completed = 0
    /\ last = NoCall

Init == InitAgent /\ train = NoTrain

\* ------------------------------------------------------------ exploration
\* exp(-t / eps_decay) in fixed point: exp(-1/d) is taken as (2d - 1)/(2d + 1).
RECURSIVE ExpNeg(_)
ExpNeg(t) ==
    IF t = 0 THEN ExpScale
    ELSE (ExpNeg(t - 1) * (2 * EpsDecayExp - 1)) \div (2 * EpsDecayExp + 1)

\* Atari act(): eps_end + (eps_start - eps_end) * exp(-steps_done / eps_decay),
\* in units of 1/(100 * ExpScale).
EpsExponential(t) == EpsEnd * ExpScale + (EpsStart - EpsEnd) * ExpNeg(t)

\* lunar DQNAgent: eps_decay = (eps_start - eps_end) / 100000, a rounded quotient.
EpsDecayLinear == RoundDiv(EpsStart - EpsEnd, LinearDecaySteps)

\* lunar DQNAgent.act: the stored threshold after one more call.
EpsLinearStep(eps) == IF eps > EpsEnd THEN eps - EpsDecayLinear ELSE eps

\* torch.rand(1), in hundredths.
RandDraws == {0, 50, 99}

\* The argmax act() takes over the policy's output, as the code's 0-based index.
GreedyAction(k, out) ==
    LET q == IF Width(k) = 1
             THEN [a \in Actions |-> ToRat(out[a][1])]
             ELSE [a \in Actions |-> Mean([h \in 1..Width(k) |-> ToRat(out[a][h])])]
    IN ArgMax(q) - 1

ActRecord(b, a, e) == [NoCall EXCEPT !.op = "act", !.branch = b, !.action = a, !.eps = e]

\* An act() that trains on what it is shown: the forward pass is followed by a
\* unit step on every parameter.
InferenceWithStep(params) ==
    [i \in DOMAIN params |-> IF params[i] = NaN THEN NaN ELSE params[i] - 1]

\* The parameters after the forward pass of act(): run under torch.no_grad(), with
\* no backward() and no optimizer call, it leaves them as they are.
InferenceOnly(params) == params

\* random.randint(0, action_space), whose upper end is inclusive.
RandomActionsUpToActionSpace == 0..ActionSpace

\* random.randint(0, self.action_space - 1): both ends inclusive.
RandomActions == 0..(ActionSpace - 1)

\* DQNAgent.act and DoubleDQNAgent.act of src/agents.py
ActAtari ==
    /\ kind \in AtariKinds
    /\ steps_done < MaxAct
    /\ LET eps == EpsExponential(steps_done) IN
       \E u \in RandDraws :
          /\ steps_done' = steps_done + 1
          /\ IF u * ExpScale > eps
             THEN /\ \E out \in Forward(policy, 1, -1, 2) :
                        last' = ActRecord("greedy", GreedyAction(kind, out), eps)
                  /\ policy' = InferenceOnly(policy)
             ELSE /\ \E r \in RandomActions :
                        last' = ActRecord("random", r, eps)
                  /\ policy' = policy
    /\ UNCHANGED <<train, learns_completed, kind, target, policy_grad, batches_done,
                   eps_threshold, summary_writer, replay_len, weights, learn_calls>>

\* DQNAgent.act of src/lunar/agents.py
ActLunar ==
    /\ kind = "LunarDQN"
    /\ eps_threshold' = EpsLinearStep(eps_threshold)
    /\ \E u \in RandDraws :
          IF u > eps_threshold'
          THEN /\ \E out \in Forward(policy, 1, -1, 2) :
                     last' = ActRecord("greedy", GreedyAction(kind, out), eps_threshold')
               /\ policy' = InferenceOnly(policy)
          ELSE /\ \E r \in RandomActions :
                     last' = ActRecord("random", r, eps_threshold')
               /\ policy' = policy
    /\ UNCHANGED <<train, learns_completed, kind, target, policy_grad, steps_done,
                   batches_done, summary_writer, replay_len, weights, learn_calls>>

\* act of OfflineDQNAgent, EnsembleOffDQNAgent (and REMOffDQNAgent), QROffDQNAgent
ActOffline ==
    /\ kind \in OfflineNeuralKinds
    /\ \E out \in Forward(policy, Width(kind), -1, 2) :
          last' = ActRecord("greedy", GreedyAction(kind, out), 0)
    /\ policy' = InferenceOnly(policy)
    /\ UNCHANGED <<train, learns_completed, kind, target, policy_grad, steps_done,
                   batches_done, eps_threshold, summary_writer, replay_len, weights,
                   learn_calls>>

\* OfflineLSPIAgent.act: argmax over a of weights . phi(state, a)
ActLSPI ==
    /\ kind = "OfflineLSPI"
    /\ \E out \in Forward(weights, 1, -1, 2) :
          last' = ActRecord("greedy", GreedyAction(kind, out), 0)
    /\ weights' = InferenceOnly(weights)
    /\ UNCHANGED <<train, learns_completed, kind, policy, target, policy_grad, steps_done,
                   batches_done, eps_threshold, summary_writer, replay_len, learn_calls>>

\* Agent.add_summary_writer
AddSummaryWriter ==
    /\ ~summary_writer
    /\ summary_writer' = TRUE
    /\ last' = [NoCall EXCEPT !.op = "add_summary_writer"]
    /\ UNCHANGED <<train, learns_completed, kind, policy, target, policy_grad, steps_done,
                   batches_done, eps_threshold, replay_len, weights, learn_calls>>

\* ReplayBuffer.add: one more transition, the oldest evicted once full.
BufferAdd(n) == IF n < BufferSize THEN n + 1 ELSE BufferSize

\* add_experience of the online agents
AddExperience ==
    /\ kind \in OnlineKinds
    /\ replay_len' = BufferAdd(replay_len)
    /\ last' = [NoCall EXCEPT !.op = "add_experience"]
    /\ UNCHANGED <<train, learns_completed, kind, policy, target, policy_grad, steps_done,
                   batches_done, eps_threshold, summary_writer, weights, learn_calls>>

\* ------------------------------------------------------------ learn targets
DoubleKinds == {"AtariDoubleDQN", "LunarDQN"}

\* gamma: 0.999 in src/agents.py, 0.99 in lunar DQNAgent, cfg['GAMMA'] offline
Gamma(k) ==
    CASE k \in AtariKinds -> <<999, 1000>>
      [] k = "LunarDQN" -> <<99, 100>>
      [] OTHER -> <<99, 100>>

\* The transitions a batch may hold for agent k: reward, done flag, and the
\* outputs of the target (tq) and of the policy (pq) on the transition's new_state.
Transitions(k, D) ==
    { [reward |-> r, done |-> d, tq |-> t, pq |-> p] :
        r \in D.rewards, d \in D.dones,
        t \in Forward(target, Width(k), D.lo, D.hi),
        p \in IF k \in DoubleKinds THEN Forward(policy, 1, D.lo, D.hi)
              ELSE { [a \in Actions |-> <<0>>] } }

\* Offline agents take the caller's batch; online agents what sample() returns.
BatchLens(k) == IF k \in OnlineKinds THEN {BatchSize} ELSE 1..MaxBatch

Batches(k, D) == UNION { [1..n -> Transitions(k, D)] : n \in BatchLens(k) }

SumInt(r) == LET RECURSIVE S(_)
                 S(i) == IF i = 0 THEN 0 ELSE r[i] + S(i - 1)
             IN S(Len(r))

\* REMOffDQNAgent.learn: alpha = torch.rand(num_heads); alpha = alpha / sum(alpha)
MixtureWeights(r) == [h \in 1..Len(r) |-> RatDivInt(r[h], SumInt(r))]

AlphaDraws == [1..NumHeads -> 0..RandMax]

\* The mask left out: the bootstrap term of a terminal transition survives.
MaskDoneSkipped(v, done) == v

\* next_state_values[done] = 0
MaskDone(v, done) == IF done THEN Rat(0) ELSE v

\* V(s') of one transition before masking, one entry per head or quantile.
NextStateValues(k, t, alpha) ==
    CASE k \in {"AtariDQN", "OfflineDQN"} ->
            << RatMax([a \in Actions |-> ToRat(t.tq[a][1])]) >>
      [] k \in DoubleKinds ->
            LET new_action == ArgMax([a \in Actions |-> ToRat(t.pq[a][1])])
            IN << ToRat(t.tq[new_action][1]) >>
      [] k = "EnsembleOffDQN" ->
            [h \in 1..NumHeads |-> RatMax([a \in Actions |-> ToRat(t.tq[a][h])])]
      [] k = "REMOffDQN" ->
            << RatMax([a \in Actions |->
                  RatSum([h \in 1..NumHeads |-> RatMul(alpha[h], ToRat(t.tq[a][h]))])]) >>
      [] k = "QROffDQN" ->
            LET max_action_index ==
                    ArgMax([a \in Actions |->
                              Mean([i \in 1..NumQuantiles |-> ToRat(t.tq[a][i])])])
            IN [i \in 1..NumQuantiles |-> ToRat(t.tq[max_action_index][i])]

\* expected_state_action_values = (next_state_values * gamma) + reward, y[b][h]
Expected(k, batch, alpha) ==
    [b \in 1..Len(batch) |->
        LET nsv == NextStateValues(k, batch[b], alpha) IN
        [h \in 1..Len(nsv) |->
            RatAdd(RatMul(MaskDone(nsv[h], batch[b].done), Gamma(k)),
                   Rat(batch[b].reward))]]

\* The loss is NaN when a predicted value or a target is.
LossIsNaN(y, alpha) ==
    \/ HasNaN(policy)
    \/ \E h \in DOMAIN alpha : IsNaNRat(alpha[h])
    \/ \E b \in DOMAIN y : \E h \in DOMAIN y[b] : IsNaNRat(y[b][h])

\* ------------------------------------------------------------- optimisation
\* What backward() may leave in .grad: nothing, too large everywhere, and a
\* vector mixing a too negative element with one inside [-1, 1].
RawGrads ==
    { [i \in ParamIdx |-> 0], [i \in ParamIdx |-> MaxRawGrad],
      [i \in ParamIdx |-> IF i % 2 = 1 THEN -MaxRawGrad ELSE 1] }

\* The clamp left out: the optimizer meets the gradient as backward() left it.
ClampSkipped(g) == g

\* param.grad.data.clamp_(-1, 1) on one element; a NaN stays a NaN
Clamp(g) == IF g = NaN THEN NaN ELSE IF g > 1 THEN 1 ELSE IF g < -1 THEN -1 ELSE g

\* optimizer.step() on the policy's parameters with the gradients it finds
OptimizerStep(p, g) ==
    [i \in ParamIdx |-> IF p[i] = NaN \/ g[i] = NaN THEN NaN ELSE p[i] - g[i]]

\* The optimisation block of every learn(), in the order the code runs it.
LearnPhases == <<"zero_grad", "backward", "clamp", "step">>

\* One phase applied to st = [params, grad, consumed]; raw is what backward() adds.
ApplyPhase(ph, st, raw) ==
    CASE ph = "zero_grad" -> [st EXCEPT !.grad = [i \in ParamIdx |-> 0]]
      [] ph = "backward" ->
            [st EXCEPT !.grad = [i \in ParamIdx |->
                IF raw[i] = NaN \/ st.grad[i] = NaN THEN NaN ELSE st.grad[i] + raw[i]]]
      [] ph = "clamp" -> [st EXCEPT !.grad = [i \in ParamIdx |-> Clamp(st.grad[i])]]
      [] ph = "step" ->
            [st EXCEPT !.params = OptimizerStep(st.params, st.grad), !.consumed = st.grad]

RECURSIVE RunPhases(_, _, _)
RunPhases(phases, st, raw) ==
    IF phases = <<>> THEN st
    ELSE RunPhases(Tail(phases), ApplyPhase(Head(phases), st, raw), raw)

\* The counter incremented ahead of the test: the sync falls on the calls whose
\* 1-based index is a multiple of target_update_steps.
SyncDueAfterIncrement(counter) == (counter + 1) % TargetUpdateSteps = 0

\* "Update target every n steps": the test each learn() makes on its counter.
SyncDue(counter) == counter % TargetUpdateSteps = 0

\* An optimizer built over the target's parameters too: the target takes the
\* gradient step of every learn() that does not sync it.
TargetTrainedToo(sync, new_policy, old_target, g) ==
    IF sync THEN new_policy ELSE OptimizerStep(old_target, g)

\* The target after a learn(): overwritten wholesale from the policy when the sync
\* is due, otherwise left alone (the optimizer holds the policy's parameters only).
TargetAfterLearn(sync, new_policy, old_target, g) ==
    IF sync THEN new_policy ELSE old_target

\* "Log metrics": the guard of every neural learn().
LogDue(counter) == summary_writer /\ counter % SummaryCheckpoint = 0

\* The counter learn() tests: steps_done online, batches_done offline.
Counter(k) == IF k \in OnlineKinds THEN steps_done ELSE batches_done

\* ReplayBuffer.sample() on a buffer of n transitions: the source has no guard,
\* sampling more than is stored fails implicitly.
SampleOutcome(n) == IF n < BatchSize THEN "ImplicitSampleFailure" ELSE "none"

LearnRecord(e) == [NoCall EXCEPT !.op = "learn", !.err = e]

\* learn() of the seven neural agents, on a batch and raw gradients from domain D.
LearnNeural(D) ==
    /\ kind \in NeuralKinds
    /\ learn_calls < D.maxLearn
    /\ learn_calls' = learn_calls + 1
    /\ \/ /\ kind \in OnlineKinds
          /\ SampleOutcome(replay_len) # "none"
          /\ last' = LearnRecord(SampleOutcome(replay_len))
          /\ UNCHANGED <<policy, target, policy_grad, batches_done, learns_completed>>
       \/ /\ kind \in OnlineKinds => SampleOutcome(replay_len) = "none"
          /\ \E batch \in Batches(kind, D) :
             \/ \* QR-DQN: .squeeze() drops a batch dimension of 1 and the mask
                \* next_state_values[done] no longer fits: IndexError
                /\ kind = "QROffDQN"
                /\ Len(batch) = 1
                /\ last' = LearnRecord("IndexError")
                /\ UNCHANGED <<policy, target, policy_grad, batches_done,
                               learns_completed>>
             \/ /\ ~(kind = "QROffDQN" /\ Len(batch) = 1)
                /\ \E r \in IF kind = "REMOffDQN" THEN D.alphas ELSE {<<>>} :
                   LET alpha == MixtureWeights(r)
                       y == Expected(kind, batch, alpha)
                   IN
                   \E raw \in IF LossIsNaN(y, alpha)
                              THEN { [i \in ParamIdx |-> NaN] } ELSE D.grads :
                   LET st == RunPhases(LearnPhases,
                                       [params |-> policy, grad |-> policy_grad,
                                        consumed |-> <<>>], raw)
                       sync == SyncDue(Counter(kind))
                   IN
                   /\ policy' = st.params
                   /\ policy_grad' = st.grad
                   /\ target' = TargetAfterLearn(sync, st.params, target, st.consumed)
                   /\ batches_done' = IF kind \in OnlineKinds THEN batches_done
                                      ELSE batches_done + 1
                   /\ learns_completed' = learns_completed + 1
                   /\ last' = [LearnRecord("none") EXCEPT
                                  !.steps = LearnPhases,
                                  !.raw = raw,
                                  !.consumed = st.consumed,
                                  !.done = [b \in 1..Len(batch) |-> batch[b].done],
                                  !.reward = [b \in 1..Len(batch) |-> batch[b].reward],
                                  !.y = y,
                                  !.tq = [b \in 1..Len(batch) |-> batch[b].tq],
                                  !.alpha = alpha,
                                  !.synced = sync,
                                  !.emit = IF LogDue(Counter(kind))
                                           THEN <<"Loss", "Expected Q Values">>
                                           ELSE <<>>]
    /\ UNCHANGED <<train, kind, steps_done, eps_threshold, summary_writer, replay_len,
                   weights>>

\* torch.solve(b_vec, a_mat): the weight vectors the solve may return.
SolveResults == [ParamIdx -> {0, 1}]

\* The transitions an LSPI batch may hold: phi_sa = evaluate(state, action),
\* phi_next = evaluate(new_state, best_action), the done flag and the reward.
LSPITransitions(D) ==
    { [phi_sa |-> f, phi_next |-> n, done |-> d, reward |-> r] :
        f \in D.features, n \in D.features, d \in D.dones, r \in D.rewards }

LSPIBatches(D) == UNION { [1..n -> LSPITransitions(D)] : n \in 1..MaxBatch }

\* The terminal branch left out: phi_sprime is evaluated for every transition.
PhiSprimeUnmasked(t) == t.phi_next

\* phi_sprime of one transition: zeros at done, else the features of new_state
PhiSprime(t) == IF t.done THEN [i \in ParamIdx |-> 0] ELSE t.phi_next

RECURSIVE SumOver(_, _)
SumOver(n, f) == IF n = 0 THEN 0 ELSE f[n] + SumOver(n - 1, f)

\* a_mat as handed to torch.solve, times the denominator of gamma = g[1] / g[2]:
\* 0.1 on the diagonal, plus phi_sa * (phi_sa - gamma * phi_sprime)^T per transition
AMat(batch, g) ==
    [i \in ParamIdx |-> [j \in ParamIdx |->
        (IF i = j THEN g[2] \div 10 ELSE 0)
        + SumOver(Len(batch),
                  [b \in 1..Len(batch) |->
                      batch[b].phi_sa[i]
                      * (g[2] * batch[b].phi_sa[j] - g[1] * PhiSprime(batch[b])[j])])]]

\* The sequence cols without its c-th entry.
Without(cols, c) == [k \in 1..(Len(cols) - 1) |-> IF k < c THEN cols[k] ELSE cols[k + 1]]

\* Determinant of the minor of m on the rows from r on and the columns cols,
\* expanded along row r.
RECURSIVE Minor(_, _, _)
Minor(m, r, cols) ==
    IF cols = <<>> THEN 1
    ELSE SumOver(Len(cols),
                 [c \in 1..Len(cols) |->
                     (IF c % 2 = 1 THEN 1 ELSE -1) * m[r][cols[c]]
                     * Minor(m, r + 1, Without(cols, c))])

\* torch.solve raises on a singular a_mat.
Singular(m) == Minor(m, 1, [k \in ParamIdx |-> k]) = 0

\* OfflineLSPIAgent.learn
LearnLSPI(D) ==
    /\ kind = "OfflineLSPI"
    /\ learn_calls < D.maxLearn
    /\ learn_calls' = learn_calls + 1
    /\ \E batch \in LSPIBatches(D) :
       LET rec(e) == [LearnRecord(e) EXCEPT
                         !.done = [b \in 1..Len(batch) |-> batch[b].done],
                         !.reward = [b \in 1..Len(batch) |-> batch[b].reward],
                         !.phi_sa = [b \in 1..Len(batch) |-> batch[b].phi_sa],
                         !.phi_next = [b \in 1..Len(batch) |-> batch[b].phi_next],
                         !.a_mat = AMat(batch, Gamma(kind))]
       IN
       \/ \* a singular a_mat: torch.solve raises before anything is assigned
          /\ Singular(AMat(batch, Gamma(kind)))
          /\ last' = rec("SolveError")
          /\ UNCHANGED <<weights, learns_completed>>
       \/ \E new_weights \in SolveResults :
             /\ ~Singular(AMat(batch, Gamma(kind)))
             /\ weights' = new_weights
             /\ last' = IF summary_writer
                        THEN [rec("none") EXCEPT !.emit = <<"Distance">>]
                        ELSE rec("AttributeError")
             /\ learns_completed' = IF summary_writer THEN learns_completed + 1
                                    ELSE learns_completed
    /\ UNCHANGED <<train, kind, policy, target, policy_grad, steps_done, batches_done,
                   eps_threshold, summary_writer, replay_len>>

\* -------------------------------------------------- train() of offline.py
\* The agent of offline.py, its environment and its data loader are driven through
\* calls only; train() reads nothing of the agent back but the action it hands to
\* env.step.  train.call is the call train() made last, train.saved what it has
\* handed to agent.save so far, with the episodes the evaluation before it finished.
agentVars == <<kind, policy, target, policy_grad, steps_done, batches_done, eps_threshold,
               summary_writer, replay_len, weights, learn_calls, learns_completed, last>>

\* train() up to its epoch loop, for one cfg and one length of the data loader:
\* agent.add_summary_writer(summary) has run, range(1, EPOCHS + 1) is entered.
InitTrain ==
    /\ InitAgent
    /\ kind = "OfflineDQN"
    /\ \E n \in 0..MaxEpochs, m \in 0..MaxEvalEpisodes, b \in 0..MaxLoaderLen :
          train = [NoTrain EXCEPT !.pc = IF n >= 1 THEN "batches" ELSE "close",
                                  !.epochs = n, !.eval_episodes = m, !.batches = b,
                                  !.e = IF n >= 1 THEN 1 ELSE 0]

\* for i_batch, sample_batched in enumerate(tqdm(data_loader)): agent.learn(...)
TrainLearn ==
    /\ train.pc = "batches"
    /\ train.i_batch < train.batches
    /\ train' = [train EXCEPT !.i_batch = @ + 1, !.call = "learn"]
    /\ UNCHANGED agentVars

\* The data loader is exhausted: rewards = [], mean_reward = [], counter = 0
TrainStartEval ==
    /\ train.pc = "batches"
    /\ train.i_batch = train.batches
    /\ train' = [train EXCEPT !.pc = "eval", !.counter = 0]
    /\ UNCHANGED agentVars

\* An evaluation loop whose act() is not followed by env.step.
PcAfterActSkipsStep == "eval"

\* Where train() stands after action = agent.act(state): before env.step.
PcAfterAct == "step"

\* while counter < cfg['EVAL_EPISODES']: action = agent.act(state)
TrainAct ==
    /\ train.pc = "eval"
    /\ train.counter < train.eval_episodes
    /\ train' = [train EXCEPT !.pc = PcAfterAct, !.call = "act"]
    /\ UNCHANGED agentVars

\* An evaluation loop that forgets to count the finished episode.
CounterNotAdvanced(counter, done) == counter

\* if done: env.reset(); ...; counter += 1
CounterAfterStep(counter, done) == IF done THEN counter + 1 ELSE counter

\* state, reward, done, _ = env.step(action_map[int(action)]): an episode reports
\* done at the latest on its MaxEpisodeLen-th step.
TrainEnvStep ==
    /\ train.pc = "step"
    /\ \E done \in IF train.ep_len + 1 >= MaxEpisodeLen THEN {TRUE} ELSE BOOLEAN :
          train' = [train EXCEPT !.pc = "eval", !.call = "env.step",
                                 !.ep_len = IF done THEN 0 ELSE @ + 1,
                                 !.counter = CounterAfterStep(@, done)]
    /\ UNCHANGED agentVars

\* The while loop is left: agent.save(e), the episode summary, and the next e of
\* range(1, EPOCHS + 1), if there is one.
TrainSave ==
    /\ train.pc = "eval"
    /\ ~(train.counter < train.eval_episodes)
    /\ train' = [train EXCEPT
                    !.call = "save",
                    !.saved = Append(@, [e |-> train.e, episodes |-> train.counter]),
                    !.pc = IF train.e < train.epochs THEN "batches" ELSE "close",
                    !.e = IF train.e < train.epochs THEN @ + 1 ELSE @,
                    !.i_batch = 0]
    /\ UNCHANGED agentVars

\* env.close(), and train() returns.
TrainClose ==
    /\ train.pc = "close"
    /\ train' = [train EXCEPT !.pc = "done", !.call = "close"]
    /\ UNCHANGED agentVars

\* ----------------------------------------------------------- specifications
\* Batches and gradients of the agent's life cycle.
LifeDomain ==
    [lo |-> 2, hi |-> 2, rewards |-> {1}, dones |-> {FALSE},
     alphas |-> { [h \in 1..NumHeads |-> 0], [h \in 1..NumHeads |-> RandMax] },
     grads |-> RawGrads, features |-> { [i \in ParamIdx |-> 1] },
     maxLearn |-> MaxLearn]

\* Batches rich in network outputs, for the targets of a single learn().
TargetDomain ==
    [lo |-> -1, hi |-> 2, rewards |-> {1}, dones |-> BOOLEAN, alphas |-> AlphaDraws,
     grads |-> { [i \in ParamIdx |-> MaxRawGrad] },
     features |-> { [i \in ParamIdx |-> 1], [i \in ParamIdx |-> IF i = 1 THEN 1 ELSE 0] },
     maxLearn |-> 1]

Next ==
    \/ ActAtari
    \/ ActLunar
    \/ ActOffline
    \/ ActLSPI
    \/ AddSummaryWriter
    \/ AddExperience
    \/ LearnNeural(LifeDomain)
    \/ LearnLSPI(LifeDomain)

Spec == Init /\ [][Next]_vars

NextTargets ==
    \/ AddExperience
    \/ LearnNeural(TargetDomain)
    \/ LearnLSPI(TargetDomain)

SpecTargets == Init /\ [][NextTargets]_vars

NextTrain ==
    \/ TrainLearn
    \/ TrainStartEval
    \/ TrainAct
    \/ TrainEnvStep
    \/ TrainSave
    \/ TrainClose

\* train() is one thread running to completion: a statement that can run does.
SpecTrain == InitTrain /\ [][NextTrain]_vars /\ WF_vars(NextTrain)

\* ------------------------------------------------------------------ claims
LearnDone == last.op = "learn" /\ last.err = "none"

\* C1: for every agent owning a target network, the target is overwritten from
\* the policy on exactly the learn calls whose 1-based index is a multiple of
\* target_update_steps, and right after such a call target equals policy.
C1_SyncOnMultiplesOfInterval ==
    (kind \in NeuralKinds /\ LearnDone) =>
        /\ last.synced <=> (learn_calls % TargetUpdateSteps = 0)
        /\ last.synced => target = policy

\* C2: immediately after construction of an agent with a target network, the
\* target's parameters equal the policy's.
C2_TargetClonedAtConstruction ==
    (kind \in NeuralKinds /\ last.op = "init") => target = policy

\* C3: in learn(), a transition with done = true gets the target y = reward, for
\* every head and every quantile, whatever the target network outputs.
C3_TerminalTargetIsReward ==
    LearnDone =>
        \A b \in DOMAIN last.y :
            last.done[b] =>
                \A h \in DOMAIN last.y[b] : RatEq(last.y[b][h], Rat(last.reward[b]))

\* C3 witness: a learn() of a multi-head or multi-quantile agent on a batch whose
\* first transition is terminal and whose second is not and keeps its bootstrap term.
C3_Witness ==
    /\ LearnDone
    /\ kind \in {"EnsembleOffDQN", "QROffDQN"}
    /\ Len(last.y) = 2
    /\ last.done[1] /\ ~last.done[2]
    /\ \A h \in DOMAIN last.y[2] : ~RatEq(last.y[2][h], Rat(last.reward[2]))

\* C4: across act() calls epsilon never increases and is never below eps_end; the
\* linear schedule of the lunar DQNAgent subtracts eps_decay on every call until
\* it reaches eps_end and is unchanged by every call after that.
C4_EpsilonSchedule ==
    [][ /\ (kind = "LunarDQN" /\ last'.op = "act") =>
              /\ eps_threshold' <= eps_threshold
              /\ eps_threshold' >= EpsEnd
              /\ eps_threshold > EpsEnd => eps_threshold' = eps_threshold - EpsDecayLinear
              /\ eps_threshold <= EpsEnd => eps_threshold' = eps_threshold
        /\ (kind \in AtariKinds /\ last'.op = "act") =>
              /\ EpsExponential(steps_done') <= EpsExponential(steps_done)
              /\ last'.eps >= EpsEnd * ExpScale ]_vars

TargetFrame ==
    /\ target' # target =>
          last'.op = "learn" /\ last'.err = "none" /\ last'.synced /\ target' = policy'
    /\ policy' # policy => last'.op = "learn" /\ last'.err = "none"

C6_UnsetWriterTolerated ==
    (last.op = "learn" /\ ~summary_writer
        /\ last.err \notin {"ImplicitSampleFailure", "IndexError", "SolveError"}) =>
        last.err = "none" /\ last.emit = <<>>

\* C7: a learn() call that raises applies no part of that step's update: policy,
\* target, LSPI weights and batches_done are what they were before the call.
C7_FailedLearnAppliesNothing ==
    [][ (last'.op = "learn" /\ last'.err # "none") =>
            /\ policy' = policy
            /\ target' = target
            /\ weights' = weights
            /\ batches_done' = batches_done ]_vars

\* C8: learn() on an online agent whose buffer holds fewer than batch_size
\* transitions is rejected with an explicit InsufficientDataError.
C8_UnderfullBufferRejectedExplicitly ==
    (kind \in OnlineKinds /\ last.op = "learn" /\ replay_len < BatchSize) =>
        last.err = "InsufficientDataError"

\* C9: in every REMOffDQNAgent.learn() call, for every random draw, the mixture
\* weights alpha are nonnegative and sum to 1.
C9_MixtureWeightsConvex ==
    (kind = "REMOffDQN" /\ LearnDone) =>
        /\ \A h \in DOMAIN last.alpha : RatGeqZero(last.alpha[h])
        /\ RatEq(RatSum(last.alpha), Rat(1))

\* A gradient element outside [-1, 1]: below -1 or above 1 (a NaN is neither).
Outside(g) == g # NaN /\ (g < -1 \/ g > 1)

\* C10: every gradient-based learn() runs zero_grad, backward, clamp, step in that
\* order, so the optimizer never consumes a gradient element outside [-1, 1].
C10_ClampedBeforeStep ==
    (kind \in NeuralKinds /\ LearnDone) =>
        /\ last.steps = <<"zero_grad", "backward", "clamp", "step">>
        /\ \A i \in DOMAIN last.consumed : ~Outside(last.consumed[i])

\* C10 witness: a learn() whose backward() left an element outside [-1, 1] and
\* whose optimizer step consumed it clamped.
C10_Witness ==
    /\ LearnDone /\ kind \in NeuralKinds
    /\ \E i \in DOMAIN last.raw :
          Outside(last.raw[i]) /\ last.consumed[i] = Clamp(last.raw[i])

\* C11: act() never changes learned parameters: for every agent and on both the
\* greedy and the random branch, the policy, the target and the LSPI weights are
\* the same before and after the call.
C11_ActLeavesParameters ==
    [][ last'.op = "act" =>
            /\ policy' = policy
            /\ target' = target
            /\ weights' = weights ]_vars

\* C11 witness: a greedy act() made after a learn() has moved the policy away
\* from the target.
C11_Witness ==
    /\ last.op = "act" /\ last.branch = "greedy"
    /\ kind \in NeuralKinds
    /\ learns_completed > 0
    /\ policy # target

\* C12: every value act() returns, on the greedy and on the random branch, is an
\* action index a with 0 <= a < action_space.
C12_ActionInRange ==
    last.op = "act" => (last.action \in Int /\ 0 <= last.action /\ last.action < ActionSpace)

\* C12 witness: the random branch returned the largest action index.
C12_Witness ==
    last.op = "act" /\ last.branch = "random" /\ last.action = ActionSpace - 1

\* C13: every agent of the DQN variant (DQNAgent of src/agents.py, DQNAgent and
\* OfflineDQNAgent of src/lunar/agents.py) computes its target as
\* y = reward + gamma * max over a' of Q_target(s', a') * (1 - done), the maximum
\* taken over the target network's own outputs.
C13_TargetIsMaxOverTargetOutputs ==
    (kind \in {"AtariDQN", "LunarDQN", "OfflineDQN"} /\ LearnDone) =>
        \A b \in DOMAIN last.y :
            LET max_q == RatMax([a \in Actions |-> ToRat(last.tq[b][a][1])])
                not_done == IF last.done[b] THEN Rat(0) ELSE Rat(1)
            IN RatEq(last.y[b][1],
                     RatAdd(Rat(last.reward[b]),
                            RatMul(Gamma(kind), RatMul(max_q, not_done))))

\* What train() has handed to agent.save when it returns: every epoch 1..EPOCHS
\* once and in order, each after exactly EVAL_EPISODES finished episodes.
BudgetSpent ==
    /\ Len(train.saved) = train.epochs
    /\ \A i \in DOMAIN train.saved :
          train.saved[i] = [e |-> i, episodes |-> train.eval_episodes]

\* C14: train(cfg) stops only when its budget is exhausted: with a finite data
\* loader and episodes that eventually report done it terminates, after exactly
\* cfg['EPOCHS'] epochs, each evaluation phase ending as soon as
\* cfg['EVAL_EPISODES'] episodes have finished.
C14_TrainTerminatesOnBudget ==
    /\ <>(train.pc = "done")
    /\ [](train.pc = "done" => BudgetSpent)
    /\ [](train.counter <= train.eval_episodes)

\* C14 witness: train() has returned after the largest budget of epochs,
\* evaluation episodes and batches.
C14_Witness ==
    /\ train.pc = "done"
    /\ train.epochs = MaxEpochs
    /\ train.eval_episodes = MaxEvalEpisodes
    /\ train.batches = MaxLoaderLen
    /\ Len(train.saved) = MaxEpochs

\* A step of train() that makes a call (every step but the one that only sets up
\* the evaluation), and the call it makes.
Calls(c) == train'.call = c /\ ~(train.pc = "batches" /\ train'.pc = "eval")

\* C19: in train() the calls of each epoch e are sequential and ordered:
\* agent.learn once per batch of the loader, all before the first agent.act of
\* that epoch's evaluation; every agent.act followed by exactly one env.step
\* before the next agent.act; agent.save(e) exactly once, after the evaluation of
\* epoch e and before any learn of epoch e + 1.
C19_TrainCallOrder ==
    [][ /\ Calls("learn") =>
              /\ train.call \in {"none", "learn", "save"}
              /\ train'.i_batch <= train.batches
              /\ Len(train.saved) = train.e - 1
        /\ Calls("act") =>
              /\ train.i_batch = train.batches
              /\ train.call # "act"
              /\ train'.pc = "step"
        /\ train.call = "act" => Calls("env.step")
        /\ Calls("env.step") => train.call = "act"
        /\ Calls("save") =>
              /\ train.call # "act"
              /\ train.i_batch = train.batches
              /\ train.counter = train.eval_episodes
              /\ Len(train.saved) = train.e - 1
              /\ train'.saved = Append(train.saved,
                                       [e |-> train.e, episodes |-> train.eval_episodes])
        /\ Calls("close") => BudgetSpent ]_vars

\* C19 witness: agent.save of the last epoch has just been called, after the most
\* batches and the most evaluation episodes in each epoch.
C19_Witness ==
    /\ train.call = "save"
    /\ Len(train.saved) = MaxEpochs
    /\ train.batches = MaxLoaderLen
    /\ train.eval_episodes = MaxEvalEpisodes

\* C15: every act() call on an epsilon-greedy agent advances steps_done by exactly
\* one, on the greedy and on the random branch alike, and no operation resets or
\* decreases it.
C15_ActAdvancesStepsDone ==
    [][ /\ (kind \in OnlineKinds /\ last'.op = "act") => steps_done' = steps_done + 1
        /\ steps_done' >= steps_done ]_vars

\* C16: with a summary writer attached, an agent emits metrics on exactly every
\* summary_checkpoint-th learn step (steps counted from 0, as the code's counters
\* are) and on no other learn call; an emission holds the keys 'Loss' and
\* 'Expected Q Values' ('Distance' for LSPI); the cadence is counted in learn
\* calls, also for the online agents and for OfflineLSPIAgent.
C16_EmitsEveryCheckpoint ==
    (LearnDone /\ summary_writer) =>
        IF (learns_completed - 1) % SummaryCheckpoint = 0
        THEN last.emit = IF kind = "OfflineLSPI" THEN <<"Distance">>
                         ELSE <<"Loss", "Expected Q Values">>
        ELSE last.emit = <<>>

Symmetric(m) == \A i \in DOMAIN m : \A j \in DOMAIN m : m[i][j] = m[j][i]

LSPILearn == kind = "OfflineLSPI" /\ last.op = "learn"

\* C17 as stated: in OfflineLSPIAgent.learn(), for a batch in which every
\* transition has done = false, a_mat is symmetric when it is handed to the solver.
C17_AMatSymmetric ==
    (LSPILearn /\ \A b \in DOMAIN last.done : ~last.done[b]) => Symmetric(last.a_mat)

\* The cross term: the sum over the non-terminal transitions of the batch of
\* phi(s, a) * phi(s', a')^T.
CrossTerm ==
    [i \in ParamIdx |-> [j \in ParamIdx |->
        SumOver(Len(last.done),
                [b \in 1..Len(last.done) |->
                    IF last.done[b] THEN 0 ELSE last.phi_sa[b][i] * last.phi_next[b][j]])]]

\* C17 as amended: a_mat is symmetric for a batch in which every transition has
\* done = true; in general a_mat - a_mat^T = -gamma * (C - C^T), C the cross term
\* of the non-terminal transitions, so a_mat is symmetric exactly when C is.
C17_AMatSymmetricUpToCrossTerm ==
    LSPILearn =>
        /\ \A i \in ParamIdx : \A j \in ParamIdx :
              last.a_mat[i][j] - last.a_mat[j][i]
                  = (0 - Gamma(kind)[1]) * (CrossTerm[i][j] - CrossTerm[j][i])
        /\ (\A b \in DOMAIN last.done : last.done[b]) => Symmetric(last.a_mat)

\* C17 witness: a learn() on two non-terminal transitions whose cross term, and
\* with it a_mat, is not symmetric.
C17_Witness ==
    /\ LSPILearn
    /\ Len(last.done) = 2
    /\ \A b \in DOMAIN last.done : ~last.done[b]
    /\ ~Symmetric(CrossTerm)
    /\ ~Symmetric(last.a_mat)

\* C18: in the offline neural agents batches_done equals the number of completed
\* learn() calls, and the k-th completed learn call (k from 1) copies the policy
\* into the target exactly when (k - 1) mod target_update_steps = 0; the first
\* learn call always syncs, and a sync leaves the target equal to the policy as
\* that call's optimizer step has just left it.
C18_OfflineSyncCadence ==
    [][ /\ kind \in OfflineNeuralKinds => batches_done' = learns_completed'
        /\ (kind \in OfflineNeuralKinds /\ last'.op = "learn" /\ last'.err = "none") =>
              /\ last'.synced <=> ((learns_completed' - 1) % TargetUpdateSteps = 0)
              /\ learns_completed' = 1 => last'.synced
              /\ last'.synced => target' = policy'
              /\ last'.synced => target' = OptimizerStep(policy, last'.consumed) ]_vars

\* C18 witness: the learn call after a full interval syncs again, to a policy
\* its own optimizer step has just moved.
C18_Witness ==
    /\ kind \in OfflineNeuralKinds /\ LearnDone
    /\ learns_completed = TargetUpdateSteps + 1
    /\ last.synced
    /\ \E i \in ParamIdx : last.consumed[i] # 0 /\ last.consumed[i] # NaN
    /\ target = policy
====
